---- MODULE Spec2Model ----
(***************************************************************************)
(* Model of hse-atlas/main-API: the combined project/user CRUD app         *)
(* (src/app/main.py), the project-only app (src/app/crud_projects.py) and  *)
(* the auth service (src/app/user_login_and_register.py), all working on   *)
(* the relational store declared in src/app/create_db.py; and the         *)
(* in-memory project store of src/project.py.                              *)
(*                                                                         *)
(* The store is PostgreSQL (DATABASE_URL): it enforces the UNIQUE, NOT     *)
(* NULL and FOREIGN KEY constraints the table classes declare.  A handler  *)
(* whose commit violates one of them ends in an unhandled IntegrityError,  *)
(* recorded here as status 500, and its transaction is rolled back.        *)
(*                                                                         *)
(* Strings are values the column types accept.  Characters are code        *)
(* points, a plaintext is a sequence of code points.                       *)
(***************************************************************************)
EXTENDS Integers, Sequences, FiniteSets, TLC

VARIABLES admins, projects, users, nextProjectId, nextUserId, resp, pc, preq, hs,
          projects_db, next_id

vars == <<admins, projects, users, nextProjectId, nextUserId, resp, pc, preq, hs,
          projects_db, next_id>>

store == <<admins, projects, users>>

(***************************************************************************)
(* Bounds of the model.                                                    *)
(***************************************************************************)
MaxProjectSeq == 2
MaxUserSeq == 2
MaxProcs == 2
MaxNextId == 3

(***************************************************************************)
(* Input domains.                                                          *)
(***************************************************************************)
AdminIds == {1, 2}
OwnerIds == {1, 2, 3}
ProjectIds == 1..MaxProjectSeq
UserIds == 1..MaxUserSeq
Names == {"n1", "n2"}
Descriptions == {"d1", "d2"}
Logins == {"l1", "l2"}
Emails == {"e1", "e2"}
NULL == "None"
Salts == {1, 2}
Procs == 1..MaxProcs

RECURSIVE Rep(_, _)
Rep(c, n) == IF n = 0 THEN <<>> ELSE <<c>> \o Rep(c, n - 1)

\* "aaaaa", "bbbbb": two short passwords (5 characters, the minimum length)
pwA == Rep(97, 5)
pwB == Rep(98, 5)
\* 36 Cyrillic letters (2 bytes each in UTF-8) followed by "x" or by "y":
\* 37 characters, 73 bytes
pwLongX == Rep(1103, 36) \o <<120>>
pwLongY == Rep(1103, 36) \o <<121>>
\* 35 Cyrillic letters followed by "x" or "y": 36 characters, 71 bytes
pwEdgeX == Rep(1103, 35) \o <<120>>
pwEdgeY == Rep(1103, 35) \o <<121>>

Passwords == {pwA, pwB}

\* Clock readings: a whole second, and instants within and at the end of it
EPOCH_SECOND == 1700000000
Instant0 == [second |-> EPOCH_SECOND, microsecond |-> 0]
Clock == {Instant0,
          [second |-> EPOCH_SECOND, microsecond |-> 999999],
          [second |-> EPOCH_SECOND + 1, microsecond |-> 0]}
Plaintexts == {pwA, pwB, pwLongX, pwLongY, pwEdgeX, pwEdgeY}

(***************************************************************************)
(* Credential hasher: passlib CryptContext(schemes=["bcrypt"]).            *)
(***************************************************************************)
BCRYPT_TRUNCATE == 72

\* str.encode("utf-8") of one code point (below U+0800)
Utf8Char(c) == IF c < 128 THEN <<c>> ELSE <<192 + (c \div 64), 128 + (c % 64)>>

RECURSIVE Utf8(_)
Utf8(s) == IF s = <<>> THEN <<>> ELSE Utf8Char(Head(s)) \o Utf8(Tail(s))

Truncate_70(b) == IF Len(b) > 70 THEN SubSeq(b, 1, 70) ELSE b

\* bcrypt reads the first 72 bytes of the password
Truncate(b) == IF Len(b) > BCRYPT_TRUNCATE THEN SubSeq(b, 1, BCRYPT_TRUNCATE) ELSE b

\* A stored password string: either the text of a bcrypt hash (salt and the
\* digest, which is a function of the salt and of the key bytes bcrypt
\* reads) or any other text.
BcryptString(salt, key) == [fmt |-> "bcrypt", salt |-> salt, key |-> key]
RawString(text) == [fmt |-> "raw", salt |-> 0, key |-> text]

HashWithSalt(password, salt) == BcryptString(salt, Truncate(Utf8(password)))

\* pwd_context.hash; salt is the salt the call draws
get_password_hash(password, salt) == HashWithSalt(password, salt)

\* pwd_context.verify raises UnknownHashError when the stored string is not
\* a hash of a scheme of the context
VerifyRaises(hashed_password) == hashed_password.fmt # "bcrypt"

verify_password(plain_password, hashed_password) ==
    /\ hashed_password.fmt = "bcrypt"
    /\ HashWithSalt(plain_password, hashed_password.salt) = hashed_password

\* What create_user and update_user may be handed as a password: any string
StoredFromClient == {RawString(pwA), HashWithSalt(pwA, 1)}

(***************************************************************************)
(* Constraints of the store (src/app/create_db.py).                        *)
(***************************************************************************)
UserUniqueOK_EmailOnly(us) ==
    \A u, v \in us : u.id # v.id => u.email # v.email

\* users.login and users.email are UNIQUE
UserUniqueOK(us) ==
    \A u, v \in us : u.id # v.id => (u.login # v.login /\ u.email # v.email)

\* users.project_id is a NOT NULL foreign key to projects.id
UserFKOK(us, ps) == \A u \in us : \E p \in ps : p.id = u.project_id

\* projects.owner_id is a NOT NULL foreign key to admins.id
ProjectFKOK(ps, ad) == \A p \in ps : p.owner_id \in ad

Response(op, status, body) == [op |-> op, status |-> status, body |-> body]

NoBody == [none |-> TRUE]

Init ==
    /\ admins = AdminIds
    /\ projects = {}
    /\ users = {}
    /\ nextProjectId = 1
    /\ nextUserId = 1
    /\ resp = Response("none", 0, NoBody)
    /\ pc = [p \in Procs |-> "idle"]
    /\ preq = [p \in Procs |-> NoBody]
    /\ hs = [stage |-> "off"]
    /\ projects_db = <<>>
    /\ next_id = 1

(***************************************************************************)
(* Combined app, projects (src/app/main.py).                               *)
(***************************************************************************)
create_project(name, description, owner_id) ==
    LET db_project == [id |-> nextProjectId, name |-> name,
                       description |-> description, owner_id |-> owner_id]
    IN  /\ nextProjectId <= MaxProjectSeq
        /\ nextProjectId' = nextProjectId + 1
        /\ IF ProjectFKOK(projects \cup {db_project}, admins)
           THEN /\ projects' = projects \cup {db_project}
                /\ resp' = Response("create_project", 201, NoBody)
           ELSE /\ projects' = projects
                /\ resp' = Response("create_project", 500, NoBody)
        /\ UNCHANGED <<admins, users, nextUserId, pc, preq, hs, projects_db, next_id>>

\* lines 168-171: only the fields that were passed are assigned
ApplyProjectUpdate_NameAlways(db_project, name, description) ==
    [db_project EXCEPT
        !.name = name,
        !.description = IF description # NULL THEN description ELSE @]

ApplyProjectUpdate(db_project, name, description) ==
    [db_project EXCEPT
        !.name = IF name # NULL THEN name ELSE @,
        !.description = IF description # NULL THEN description ELSE @]

update_project_TakesOwnership(project_id, owner_id, name, description) ==
    LET found == {p \in projects : p.id = project_id}
    IN  /\ IF found = {}
           THEN /\ resp' = Response("update_project", 404, NoBody)
                /\ projects' = projects
           ELSE LET db_project == CHOOSE p \in found : TRUE
                    updated == [ApplyProjectUpdate(db_project, name, description)
                                    EXCEPT !.owner_id = owner_id]
                IN  /\ projects' = (projects \ {db_project}) \cup {updated}
                    /\ resp' = Response("update_project", 200, updated)
        /\ UNCHANGED <<admins, users, nextProjectId, nextUserId, pc, preq, hs, projects_db, next_id>>

update_project(project_id, owner_id, name, description) ==
    LET found == {p \in projects : p.id = project_id}
    IN  /\ IF found = {}
           THEN /\ resp' = Response("update_project", 404, NoBody)
                /\ projects' = projects
           ELSE LET db_project == CHOOSE p \in found : TRUE
                    updated == ApplyProjectUpdate(db_project, name, description)
                IN  IF db_project.owner_id # owner_id
                    THEN /\ resp' = Response("update_project", 403, NoBody)
                         /\ projects' = projects
                    ELSE /\ projects' = (projects \ {db_project}) \cup {updated}
                         /\ resp' = Response("update_project", 200, updated)
        /\ UNCHANGED <<admins, users, nextProjectId, nextUserId, pc, preq, hs, projects_db, next_id>>

\* db.delete(db_project) followed by db.commit(): the users relationship has
\* no delete cascade, so the unit of work first sets project_id of the
\* project's users to NULL, which the NOT NULL column rejects.
DeleteProjectRow_Unchecked(db_project) ==
    [ok |-> TRUE, projects |-> projects \ {db_project}]

DeleteProjectRow(db_project) ==
    IF \E u \in users : u.project_id = db_project.id
    THEN [ok |-> FALSE, projects |-> projects]
    ELSE [ok |-> TRUE, projects |-> projects \ {db_project}]

delete_project(project_id, owner_id) ==
    LET found == {p \in projects : p.id = project_id}
    IN  /\ IF found = {}
           THEN /\ resp' = Response("delete_project", 404, NoBody)
                /\ projects' = projects
           ELSE LET db_project == CHOOSE p \in found : TRUE
                    res == DeleteProjectRow(db_project)
                IN  IF db_project.owner_id # owner_id
                    THEN /\ resp' = Response("delete_project", 403, NoBody)
                         /\ projects' = projects
                    ELSE /\ projects' = res.projects
                         /\ resp' = Response("delete_project", IF res.ok THEN 204 ELSE 500, NoBody)
        /\ UNCHANGED <<admins, users, nextProjectId, nextUserId, pc, preq, hs, projects_db, next_id>>

\* Project LEFT OUTER JOIN User ON User.project_id = Project.id: one row per
\* pair of a project and a user of it, and one row with no user for a project
\* that has none
OuterJoin(ps, us) ==
    UNION {{[project |-> p, user |-> {u}] : u \in {x \in us : x.project_id = p.id}} : p \in ps}
        \cup {[project |-> p, user |-> {}] : p \in {q \in ps : \A x \in us : x.project_id # q.id}}

count_Star(rows) == Cardinality(rows)

\* func.count(User.id) over the rows of a group: the rows where it is not NULL
count_User_id(rows) == Cardinality({r \in rows : r.user # {}})

\* the orders in which a query without ORDER BY may return the rows
Orderings(S) ==
    {f \in [1..Cardinality(S) -> S] : \A i, j \in 1..Cardinality(S) : i # j => f[i] # f[j]}

list_projects(owner_id) ==
    LET filtered == {r \in OuterJoin(projects, users) : r.project.owner_id = owner_id}
        groups == {r.project : r \in filtered}
        result == {[id |-> p.id, name |-> p.name, description |-> p.description,
                    owner_id |-> p.owner_id,
                    user_count |-> count_User_id({r \in filtered : r.project.id = p.id})]
                        : p \in groups}
    IN  /\ IF result = {}
           THEN resp' = Response("list_projects", 404, NoBody)
           ELSE \E rows \in Orderings(result) :
                    resp' = Response("list_projects", 200, rows)
        /\ UNCHANGED <<admins, projects, users, nextProjectId, nextUserId, pc, preq, hs, projects_db, next_id>>

(***************************************************************************)
(* Project-only app (src/app/crud_projects.py): the project is looked up   *)
(* by owner_id; first() without ORDER BY returns any matching row.         *)
(***************************************************************************)
crud_projects_update_project(owner_id, name, description) ==
    LET found == {p \in projects : p.owner_id = owner_id}
    IN  /\ IF found = {}
           THEN /\ resp' = Response("crud_projects_update_project", 404, NoBody)
                /\ projects' = projects
           ELSE \E db_project \in found :
                    LET updated == ApplyProjectUpdate(db_project, name, description)
                    IN  /\ projects' = (projects \ {db_project}) \cup {updated}
                        /\ resp' = Response("crud_projects_update_project", 200, updated)
        /\ UNCHANGED <<admins, users, nextProjectId, nextUserId, pc, preq, hs, projects_db, next_id>>

crud_projects_delete_project(owner_id) ==
    LET found == {p \in projects : p.owner_id = owner_id}
    IN  /\ IF found = {}
           THEN /\ resp' = Response("crud_projects_delete_project", 404, NoBody)
                /\ projects' = projects
           ELSE \E db_project \in found :
                    LET res == DeleteProjectRow(db_project)
                    IN  /\ projects' = res.projects
                        /\ resp' = Response("crud_projects_delete_project", IF res.ok THEN 204 ELSE 500, NoBody)
        /\ UNCHANGED <<admins, users, nextProjectId, nextUserId, pc, preq, hs, projects_db, next_id>>

(***************************************************************************)
(* Combined app, users (src/app/main.py).                                  *)
(***************************************************************************)
NULL_PASSWORD == [fmt |-> "null", salt |-> 0, key |-> <<>>]

\* db.add(row); db.commit() on the users table: the INSERT draws the next id
\* of the sequence and is rejected when a constraint is violated
InsertUserOK_FKOnly(row) == UserFKOK({row}, projects)

InsertUserOK(row) ==
    /\ UserUniqueOK(users \cup {row})
    /\ UserFKOK({row}, projects)

create_user(login, email, password, project_id) ==
    LET db_user == [id |-> nextUserId, login |-> login, email |-> email,
                    password |-> password, project_id |-> project_id]
    IN  /\ IF ~ \E p \in projects : p.id = project_id
           THEN /\ resp' = Response("create_user", 404, NoBody)
                /\ UNCHANGED <<users, nextUserId>>
           ELSE /\ nextUserId <= MaxUserSeq
                /\ nextUserId' = nextUserId + 1
                /\ IF InsertUserOK(db_user)
                   THEN /\ users' = users \cup {db_user}
                        /\ resp' = Response("create_user", 201, NoBody)
                   ELSE /\ users' = users
                        /\ resp' = Response("create_user", 500, NoBody)
        /\ UNCHANGED <<admins, projects, nextProjectId, pc, preq, hs, projects_db, next_id>>

ApplyUserUpdate_EmailAlways(db_user, login, email, password) ==
    [db_user EXCEPT
        !.login = IF login # NULL THEN login ELSE @,
        !.email = email,
        !.password = IF password # NULL_PASSWORD THEN password ELSE @]

\* the three "is not None" assignments
ApplyUserUpdate(db_user, login, email, password) ==
    [db_user EXCEPT
        !.login = IF login # NULL THEN login ELSE @,
        !.email = IF email # NULL THEN email ELSE @,
        !.password = IF password # NULL_PASSWORD THEN password ELSE @]

update_user(user_id, login, email, password) ==
    LET found == {u \in users : u.id = user_id}
    IN  /\ IF found = {}
           THEN /\ resp' = Response("update_user", 404, NoBody)
                /\ users' = users
           ELSE LET db_user == CHOOSE u \in found : TRUE
                    updated == ApplyUserUpdate(db_user, login, email, password)
                    after == (users \ {db_user}) \cup {updated}
                IN  IF UserUniqueOK(after)
                    THEN /\ users' = after
                         /\ resp' = Response("update_user", 200, updated)
                    ELSE /\ users' = users
                         /\ resp' = Response("update_user", 500, NoBody)
        /\ UNCHANGED <<admins, projects, nextProjectId, nextUserId, pc, preq, hs, projects_db, next_id>>

\* db.query(User).filter(User.id == user_id)
UserById_NoFilter(user_id) == users

UserById(user_id) == {u \in users : u.id = user_id}

delete_user(user_id) ==
    LET found == UserById(user_id)
    IN  /\ IF found = {}
           THEN /\ resp' = Response("delete_user", 404, NoBody)
                /\ users' = users
           ELSE /\ users' = users \ found
                /\ resp' = Response("delete_user", 204, NoBody)
        /\ UNCHANGED <<admins, projects, nextProjectId, nextUserId, pc, preq, hs, projects_db, next_id>>

(***************************************************************************)
(* Auth service (src/app/user_login_and_register.py).                      *)
(***************************************************************************)
\* line 94: db.query(User).filter(User.email == user_data.email).first()
EmailRegistered_Skipped(email) == FALSE

EmailRegistered(email) == \E u \in users : u.email = email

LoginExists(login) == \E u \in users : u.login = login

\* lines 107-117: hash the password, add the row, commit; body tells the
\* responses of concurrent requests apart
RegisterCommit(body, project_id, email, login, password, salt) ==
        LET hashed_password == get_password_hash(password, salt)
            new_user == [id |-> nextUserId, login |-> login, email |-> email,
                         password |-> hashed_password, project_id |-> project_id]
        IN  /\ nextUserId <= MaxUserSeq
            /\ nextUserId' = nextUserId + 1
            /\ IF InsertUserOK(new_user)
               THEN /\ users' = users \cup {new_user}
                    /\ resp' = Response("user_register", 200, body)
               ELSE /\ users' = users
                    /\ resp' = Response("user_register", 500, body)

\* one request, run to completion with no other request in between
user_register(project_id, email, login, password, salt) ==
        /\ IF EmailRegistered(email) \/ LoginExists(login)
           THEN /\ resp' = Response("user_register", 409, NoBody)
                /\ UNCHANGED <<users, nextUserId>>
           ELSE RegisterCommit(NoBody, project_id, email, login, password, salt)
        /\ UNCHANGED <<admins, projects, nextProjectId, pc, preq, hs, projects_db, next_id>>

\* A reading of datetime.utcnow(): whole seconds since the epoch and the
\* microseconds within the second
datetime(second, microsecond) == [second |-> second, microsecond |-> microsecond]

SECONDS_PER_DAY == 86400

\* t + timedelta(days=days)
PlusDays(t, days) == [t EXCEPT !.second = @ + days * SECONDS_PER_DAY]

\* Settings.ACCESS_TOKEN_EXPIRE_DAYS, Settings.SECRET_KEY, Settings.ALGORITHM
ACCESS_TOKEN_EXPIRE_DAYS == 30
SECRET_KEY == "your_secret_key_here"
ALGORITHM == "HS256"

timegm_RoundUp(t) == IF t.microsecond > 0 THEN t.second + 1 ELSE t.second

\* jwt.encode turns a datetime claim into calendar.timegm(utctimetuple()):
\* an integer number of seconds, the microseconds are dropped
timegm(t) == t.second

\* jwt.encode(claims, key, algorithm): the signed token, by its parts
jwt_encode(claims, key, algorithm) ==
    [header |-> [alg |-> algorithm, typ |-> "JWT"],
     payload |-> [sub |-> claims.sub, exp |-> timegm(claims.exp)],
     signature |-> [key |-> key, alg |-> algorithm]]

\* utcnow is the reading of the clock the call takes
create_access_token(data, utcnow) ==
    LET expire == PlusDays(utcnow, ACCESS_TOKEN_EXPIRE_DAYS)
        to_encode == [sub |-> data.sub, exp |-> expire]
    IN  jwt_encode(to_encode, SECRET_KEY, ALGORITHM)

user_login(project_id, email, password, utcnow) ==
    LET found == {u \in users : u.email = email}
    IN  /\ IF found = {}
           THEN resp' = Response("user_login", 401, NoBody)
           ELSE \E user \in found :
                    IF VerifyRaises(user.password)
                    THEN resp' = Response("user_login", 500, NoBody)
                    ELSE IF ~ verify_password(password, user.password)
                    THEN resp' = Response("user_login", 401, NoBody)
                    ELSE IF user.project_id # project_id
                    THEN resp' = Response("user_login", 403, NoBody)
                    ELSE resp' = Response("user_login", 200,
                                   [access_token |->
                                        create_access_token([sub |-> ToString(user.id)], utcnow),
                                    refresh_token |-> NULL])
        /\ UNCHANGED <<admins, projects, users, nextProjectId, nextUserId, pc, preq, hs, projects_db, next_id>>

(***************************************************************************)
(* Sequential specifications: every request runs to completion before the  *)
(* next one starts.  Handlers(...) is one request to any handler, with its *)
(* inputs drawn from the given sets.                                       *)
(***************************************************************************)
Opt(S) == S \cup {NULL}

ProjectHandlers(N, D, O) ==
    \/ \E n \in N, d \in D, o \in O : create_project(n, d, o)
    \/ \E i \in ProjectIds, o \in O, n \in Opt(N), d \in Opt(D) :
          update_project(i, o, n, d)
    \/ \E i \in ProjectIds, o \in O : delete_project(i, o)
    \/ \E o \in O : crud_projects_delete_project(o)

UserHandlers(L, E, S, U) ==
    \/ \E l \in L, e \in E, p \in S, i \in ProjectIds : create_user(l, e, p, i)
    \/ \E i \in UserIds, l \in Opt(L), e \in Opt(E), p \in U \cup {NULL_PASSWORD} :
          update_user(i, l, e, p)
    \/ \E i \in UserIds : delete_user(i)

AuthHandlers(L, E, R, P, SALT, T) ==
    \/ \E i \in ProjectIds, e \in E, l \in L, p \in R, s \in SALT :
          user_register(i, e, l, p, s)
    \/ \E i \in ProjectIds, e \in E, p \in P, t \in T : user_login(i, e, p, t)

\* the writing handlers and the login, over two logins and emails and one project name,
\* description and owning admin (3 is the id of no admin); users register
\* with one password and log in with it or with another
Next ==
    \/ ProjectHandlers({"n1"}, {"d1"}, {1, 3})
    \/ UserHandlers(Logins, Emails, StoredFromClient, {RawString(pwA)})
    \/ AuthHandlers(Logins, Emails, {pwA}, Passwords, {1}, {Instant0})

Spec == Init /\ [][Next]_vars

\* the project handlers over two names and descriptions
NextProjects == ProjectHandlers(Names, Descriptions, {1, 3})

SpecProjects == Init /\ [][NextProjects]_vars

\* the user handlers over the projects of one admin
NextUsers ==
    \/ create_project("n1", "d1", 1)
    \/ UserHandlers(Logins, Emails, StoredFromClient, {RawString(pwA)})

SpecUsers == Init /\ [][NextUsers]_vars

\* the listing of an admin's projects, over the projects of two admins and
\* their users
NextList ==
    \/ \E o \in AdminIds : create_project("n1", "d1", o)
    \/ \E l \in Logins, e \in Emails, i \in ProjectIds : create_user(l, e, RawString(pwA), i)
    \/ \E i \in UserIds : delete_user(i)
    \/ \E i \in ProjectIds, o \in AdminIds : delete_project(i, o)
    \/ \E o \in OwnerIds : list_projects(o)

SpecList == Init /\ [][NextList]_vars

\* the handlers of both apps that write projects, called by two admins, and
\* the user handlers
NextOwners ==
    \/ \E n \in Names, o \in AdminIds : create_project(n, "d1", o)
    \/ \E i \in ProjectIds, o \in AdminIds, n \in Opt(Names) : update_project(i, o, n, NULL)
    \/ \E o \in AdminIds, n \in Opt(Names) : crud_projects_update_project(o, n, NULL)
    \/ \E i \in ProjectIds, o \in AdminIds : delete_project(i, o)
    \/ \E o \in AdminIds : crud_projects_delete_project(o)
    \/ \E i \in ProjectIds : create_user("l1", "e1", RawString(pwA), i)
    \/ \E i \in UserIds : update_user(i, "l2", NULL, NULL_PASSWORD)
    \/ \E i \in UserIds : delete_user(i)

SpecOwners == Init /\ [][NextOwners]_vars

\* the auth service under a running clock, with the user operations that
\* change which User an email belongs to
NextAuth ==
    \/ create_project("n1", "d1", 1)
    \/ AuthHandlers(Logins, Emails, {pwA}, Passwords, {1}, Clock)
    \/ \E i \in UserIds, e \in Emails : update_user(i, NULL, e, NULL_PASSWORD)
    \/ \E i \in UserIds : delete_user(i)

SpecAuth == Init /\ [][NextAuth]_vars

(***************************************************************************)
(* Concurrent registrations.  Handlers are plain functions, which the      *)
(* framework runs in worker threads, each on its own session: the two      *)
(* SELECTs and the INSERT of user_register are separate statements, each   *)
(* seeing what is committed when it runs.  pc[p] is the next statement of  *)
(* request p, preq[p] its inputs while it runs.                            *)
(***************************************************************************)
RegisterStart(p, project_id, email, login, password, salt) ==
    /\ pc[p] = "idle"
    /\ pc' = [pc EXCEPT ![p] = "check_email"]
    /\ preq' = [preq EXCEPT ![p] = [project_id |-> project_id, email |-> email,
                    login |-> login, password |-> password, salt |-> salt]]
    /\ UNCHANGED <<admins, projects, users, nextProjectId, nextUserId, resp, hs, projects_db, next_id>>

RegisterCheckEmail(p) ==
    /\ pc[p] = "check_email"
    /\ IF EmailRegistered(preq[p].email)
       THEN /\ resp' = Response("user_register", 409, [proc |-> p])
            /\ pc' = [pc EXCEPT ![p] = "idle"]
            /\ preq' = [preq EXCEPT ![p] = NoBody]
       ELSE /\ resp' = resp
            /\ pc' = [pc EXCEPT ![p] = "check_login"]
            /\ preq' = preq
    /\ UNCHANGED <<admins, projects, users, nextProjectId, nextUserId, hs, projects_db, next_id>>

RegisterCheckLogin(p) ==
    /\ pc[p] = "check_login"
    /\ IF LoginExists(preq[p].login)
       THEN /\ resp' = Response("user_register", 409, [proc |-> p])
            /\ pc' = [pc EXCEPT ![p] = "idle"]
            /\ preq' = [preq EXCEPT ![p] = NoBody]
       ELSE /\ resp' = resp
            /\ pc' = [pc EXCEPT ![p] = "commit"]
            /\ preq' = preq
    /\ UNCHANGED <<admins, projects, users, nextProjectId, nextUserId, hs, projects_db, next_id>>

RegisterInsert(p) ==
    /\ pc[p] = "commit"
    /\ RegisterCommit([proc |-> p], preq[p].project_id, preq[p].email,
                      preq[p].login, preq[p].password, preq[p].salt)
    /\ pc' = [pc EXCEPT ![p] = "idle"]
    /\ preq' = [preq EXCEPT ![p] = NoBody]
    /\ UNCHANGED <<admins, projects, nextProjectId, hs, projects_db, next_id>>

NextConc ==
    \/ \E p \in Procs, e \in Emails, l \in Logins : RegisterStart(p, 1, e, l, pwA, 1)
    \/ \E p \in Procs : RegisterCheckEmail(p)
    \/ \E p \in Procs : RegisterCheckLogin(p)
    \/ \E p \in Procs : RegisterInsert(p)
    \/ create_project("n1", "d1", 1)
    \/ \E i \in UserIds : delete_user(i)

SpecConc == Init /\ [][NextConc]_vars

(***************************************************************************)
(* The credential hasher on its own: a password p is hashed as             *)
(* user_register hashes it, then p and a second password q are verified    *)
(* against the hash as user_login verifies them.                           *)
(***************************************************************************)
InitHash ==
    /\ admins = AdminIds
    /\ projects = {}
    /\ users = {}
    /\ nextProjectId = 1
    /\ nextUserId = 1
    /\ resp = Response("none", 0, NoBody)
    /\ pc = [p \in Procs |-> "idle"]
    /\ preq = [p \in Procs |-> NoBody]
    /\ hs \in {[stage |-> "input", p |-> p, q |-> q, h |-> RawString(<<>>),
                vp |-> FALSE, vq |-> FALSE] : p \in Plaintexts, q \in Plaintexts}
    /\ projects_db = <<>>
    /\ next_id = 1

HashStep(salt) ==
    /\ hs.stage = "input"
    /\ hs' = [hs EXCEPT !.stage = "hashed", !.h = get_password_hash(hs.p, salt)]
    /\ UNCHANGED <<admins, projects, users, nextProjectId, nextUserId, resp, pc, preq, projects_db, next_id>>

VerifyStep ==
    /\ hs.stage = "hashed"
    /\ hs' = [hs EXCEPT !.stage = "verified",
                        !.vp = verify_password(hs.p, hs.h),
                        !.vq = verify_password(hs.q, hs.h)]
    /\ UNCHANGED <<admins, projects, users, nextProjectId, nextUserId, resp, pc, preq, projects_db, next_id>>

NextHash ==
    \/ \E salt \in Salts : HashStep(salt)
    \/ VerifyStep

SpecHash == InitHash /\ [][NextHash]_vars

(***************************************************************************)
(* In-memory project store (src/project.py): projects_db is a dict from id *)
(* to record, next_id a module-level counter.                              *)
(***************************************************************************)
project_create_project_LenId(name, description) ==
    LET id == Cardinality(DOMAIN projects_db) + 1
        new_project == [name |-> name, description |-> description, id |-> id]
    IN  /\ next_id <= MaxNextId
        /\ projects_db' = [k \in DOMAIN projects_db \cup {id} |->
                              IF k = id THEN new_project ELSE projects_db[k]]
        /\ next_id' = next_id + 1
        /\ resp' = Response("project_create_project", 201, new_project)
        /\ UNCHANGED <<admins, projects, users, nextProjectId, nextUserId, pc, preq, hs>>

project_create_project(name, description) ==
    LET new_project == [name |-> name, description |-> description, id |-> next_id]
    IN  /\ next_id <= MaxNextId
        /\ projects_db' = [k \in DOMAIN projects_db \cup {next_id} |->
                              IF k = next_id THEN new_project ELSE projects_db[k]]
        /\ next_id' = next_id + 1
        /\ resp' = Response("project_create_project", 201, new_project)
        /\ UNCHANGED <<admins, projects, users, nextProjectId, nextUserId, pc, preq, hs>>

project_update_project(project_id, name, description) ==
    LET updated_project == [name |-> name, description |-> description, id |-> project_id]
    IN  /\ IF project_id \notin DOMAIN projects_db
           THEN /\ resp' = Response("project_update_project", 404, NoBody)
                /\ projects_db' = projects_db
           ELSE /\ projects_db' = [projects_db EXCEPT ![project_id] = updated_project]
                /\ resp' = Response("project_update_project", 200, updated_project)
        /\ UNCHANGED <<admins, projects, users, nextProjectId, nextUserId, pc, preq, hs, next_id>>

project_delete_project(project_id) ==
    /\ IF project_id \notin DOMAIN projects_db
       THEN /\ resp' = Response("project_delete_project", 404, NoBody)
            /\ projects_db' = projects_db
       ELSE /\ projects_db' = [k \in DOMAIN projects_db \ {project_id} |-> projects_db[k]]
            /\ resp' = Response("project_delete_project", 204, NoBody)
    /\ UNCHANGED <<admins, projects, users, nextProjectId, nextUserId, pc, preq, hs, next_id>>

\* the ids a request may name: those the counter can give and one beyond
RequestIds == 1..(MaxNextId + 1)

NextMem ==
    \/ \E n \in Names, d \in Descriptions : project_create_project(n, d)
    \/ \E i \in RequestIds, n \in Names, d \in Descriptions : project_update_project(i, n, d)
    \/ \E i \in RequestIds : project_delete_project(i)

SpecMem == Init /\ [][NextMem]_vars

(***************************************************************************)
(* Properties.                                                             *)
(***************************************************************************)
ProjectExists(project_id) == \E p \in projects : p.id = project_id

UsersWithEmail(email) == {u \in users : u.email = email}

\* C1: every user_login(project_id, email, password) returns 401 if no User
\* has the email or the password fails verification against the stored
\* password, otherwise 403 if the User's project differs from project_id,
\* otherwise a token whose subject is the User's id.
LoginOutcomeClaimed(project_id, email, password) ==
    IF \A u \in UsersWithEmail(email) : ~ verify_password(password, u.password)
    THEN resp'.status = 401
    ELSE \E u \in UsersWithEmail(email) :
            IF u.project_id # project_id
            THEN resp'.status = 403
            ELSE /\ resp'.status = 200
                 /\ resp'.body.access_token.payload.sub = ToString(u.id)

C1_LoginOutcome ==
    [][resp'.op = "user_login" =>
        \A i \in ProjectIds, e \in Emails, p \in Passwords :
            user_login(i, e, p, Instant0) => LoginOutcomeClaimed(i, e, p)]_vars

\* C2 as stated: run one after another, user_register returns 409 and leaves
\* the User table unchanged when a User has the email or the login;
\* otherwise it creates exactly one new User bound to project_id.
RegisterCreatesOne(project_id, email, login, password) ==
    /\ resp'.status = 200
    /\ \E row \in users' :
        /\ row \notin users
        /\ users' = users \cup {row}
        /\ row.project_id = project_id
        /\ row.email = email
        /\ row.login = login
        /\ verify_password(password, row.password)

RegisterConflict(email, login) ==
    \E u \in users : u.email = email \/ u.login = login

C2_RegisterAsStated ==
    [][resp'.op = "user_register" =>
        \A i \in ProjectIds, e \in Emails, l \in Logins, p \in {pwA}, s \in {1} :
            user_register(i, e, l, p, s) =>
                IF RegisterConflict(e, l)
                THEN resp'.status = 409 /\ users' = users
                ELSE RegisterCreatesOne(i, e, l, p)]_vars

\* C2, amended: run one after another, user_register returns 409 and leaves
\* the User table unchanged when a User has the email or the login;
\* otherwise, when project_id is the id of a Project, it creates exactly one
\* new User bound to project_id, and when it is the id of no Project the
\* request ends in a server error and the User table is unchanged.
C2_Register ==
    [][resp'.op = "user_register" =>
        \A i \in ProjectIds, e \in Emails, l \in Logins, p \in {pwA}, s \in {1} :
            user_register(i, e, l, p, s) =>
                IF RegisterConflict(e, l)
                THEN resp'.status = 409 /\ users' = users
                ELSE IF ProjectExists(i)
                THEN RegisterCreatesOne(i, e, l, p)
                ELSE resp'.status = 500 /\ users' = users]_vars

\* a second registration of a registered email was answered 409
C2_Witness ==
    /\ resp.op = "user_register"
    /\ resp.status = 409
    /\ \E u \in users : u.password.fmt = "bcrypt"

\* C3: update_project on a project of another owner returns 403 and changes
\* nothing; on a project of the caller it returns the updated record, in
\* which exactly the non-null requested fields have their new values and
\* every other field keeps its value; no other project is modified.
UpdateProjectClaimed(pr, owner_id, name, description) ==
    IF pr.owner_id # owner_id
    THEN resp'.status = 403 /\ projects' = projects
    ELSE /\ resp'.status = 200
         /\ resp'.body.id = pr.id
         /\ resp'.body.owner_id = pr.owner_id
         /\ resp'.body.name = (IF name = NULL THEN pr.name ELSE name)
         /\ resp'.body.description =
                (IF description = NULL THEN pr.description ELSE description)
         /\ resp'.body \in projects'
         /\ \A q \in projects : q.id # pr.id => q \in projects'
         /\ \A q \in projects' : q.id # pr.id => q \in projects
         /\ \A q \in projects' : q.id = pr.id => q = resp'.body

C3_UpdateProject ==
    [][resp'.op = "update_project" =>
        \A i \in ProjectIds, o \in {1, 3}, n \in Opt(Names), d \in Opt(Descriptions) :
            update_project(i, o, n, d) =>
                (/\ users' = users
                 /\ \A pr \in projects : pr.id = i => UpdateProjectClaimed(pr, o, n, d))]_vars

\* an owner's update was applied while a second project exists
C3_Witness ==
    /\ resp.op = "update_project"
    /\ resp.status = 200
    /\ resp.body \in projects
    /\ resp.body.name = "n2"
    /\ \E q \in projects : q.id # resp.body.id

\* C4: deleting a User or a Project that does not exist returns 404 and
\* leaves every table unchanged.
C4_DeleteAbsent ==
    [][/\ resp'.op = "delete_user" =>
            \A i \in UserIds :
                ((~ \E u \in users : u.id = i) /\ delete_user(i))
                    => (resp'.status = 404 /\ store' = store)
       /\ resp'.op = "delete_project" =>
            \A i \in ProjectIds, o \in OwnerIds :
                (~ ProjectExists(i) /\ delete_project(i, o))
                    => (resp'.status = 404 /\ store' = store)
       /\ resp'.op = "crud_projects_delete_project" =>
            \A o \in OwnerIds :
                ((~ \E p \in projects : p.owner_id = o) /\ crud_projects_delete_project(o))
                    => (resp'.status = 404 /\ store' = store)]_vars

\* a delete of an absent User was answered 404 with rows in both tables
C4_Witness ==
    /\ resp.op = "delete_user"
    /\ resp.status = 404
    /\ users # {}
    /\ projects # {}

\* C5: in every state reached by user_register, create_user, update_user
\* and delete_user calls, no two distinct User rows have the same login and
\* no two have the same email.
C5_UniqueLoginEmail ==
    \A u, v \in users : u # v => (u.login # v.login /\ u.email # v.email)

\* an update_user that would have duplicated a login or an email was refused
C5_Witness ==
    /\ resp.op = "update_user"
    /\ resp.status = 500
    /\ Cardinality(users) = 2

\* C6: after every request every User's project_id is the id of a Project
\* that exists; create_user on an absent project returns 404 and creates
\* nothing.
EveryUserInAProject(us, ps) == \A u \in us : \E p \in ps : p.id = u.project_id

C6_UserProjectExists ==
    [][/\ EveryUserInAProject(users', projects')
       /\ resp'.op = "create_user" =>
            \A l \in Logins, e \in Emails, p \in StoredFromClient, i \in ProjectIds :
                (~ ProjectExists(i) /\ create_user(l, e, p, i))
                    => (resp'.status = 404 /\ users' = users)]_vars

\* the delete of a project that has users was refused by the store
C6_Witness ==
    /\ resp.op = "delete_project"
    /\ resp.status = 500
    /\ \E u \in users : ProjectExists(u.project_id)

\* C7: when a user_register reaches its insert although a committed row has
\* its email or its login (both passed the checks before either committed),
\* the request ends in a server error, not in 409, and adds no row; no
\* interleaving leaves two rows with the same email or the same login.
C7_RegisterRace ==
    [][/\ \A u, v \in users' : u # v => (u.login # v.login /\ u.email # v.email)
       /\ \A p \in Procs :
            (pc[p] = "commit" /\ RegisterConflict(preq[p].email, preq[p].login)
                /\ RegisterInsert(p))
                => (resp'.status = 500 /\ users' = users)]_vars

\* a registration into the existing project passed both checks and was
\* refused at its insert
C7_Witness ==
    /\ resp.op = "user_register"
    /\ resp.status = 500
    /\ ProjectExists(1)
    /\ users # {}

\* C8: delete_project returns 403 and leaves the project in place when the
\* stored owner differs from the caller's owner_id; when they are equal it
\* removes exactly that project; in both cases no User row is deleted.
C8_DeleteProject ==
    [][resp'.op = "delete_project" =>
        \A i \in ProjectIds, o \in {1, 3} :
            delete_project(i, o) =>
                (/\ users' = users
                 /\ \A pr \in projects : pr.id = i =>
                        IF pr.owner_id # o
                        THEN resp'.status = 403 /\ projects' = projects
                        ELSE projects' = projects \ {pr})]_vars

\* C9: user_login against a User whose stored password is not a hash ends
\* in 401, not in a server error.
C9_LoginMalformedDigest ==
    [][resp'.op = "user_login" =>
        \A i \in ProjectIds, e \in Emails, p \in Passwords :
            ((\E u \in UsersWithEmail(e) : u.password.fmt # "bcrypt") /\ user_login(i, e, p, Instant0))
                => resp'.status = 401]_vars

\* C10 as stated: verify_password(p, get_password_hash(p)) is true, and
\* verify_password(q, get_password_hash(p)) is false whenever q differs
\* from p.
C10_HashVerifyAsStated ==
    hs.stage = "verified" => (hs.vp /\ (hs.q # hs.p => ~ hs.vq))

\* the UTF-8 encodings of p and q differ in one of their first 72 bytes
DifferInFirstBytes(p, q) ==
    LET bp == Utf8(p)
        bq == Utf8(q)
    IN  \E k \in 1..72 :
            \/ (k <= Len(bp)) # (k <= Len(bq))
            \/ (k <= Len(bp) /\ k <= Len(bq) /\ bp[k] # bq[k])

\* C10, amended: verify_password(p, get_password_hash(p)) is true, and
\* verify_password(q, get_password_hash(p)) is false exactly when the UTF-8
\* encodings of p and q differ within their first 72 bytes.
C10_HashVerify ==
    hs.stage = "verified" => (hs.vp /\ (hs.vq = ~ DifferInFirstBytes(hs.p, hs.q)))

\* two passwords of 71 bytes that differ in their last byte were told apart
C10_Witness ==
    /\ hs.stage = "verified"
    /\ hs.p = pwEdgeX
    /\ hs.q = pwEdgeY
    /\ hs.vp
    /\ ~ hs.vq

\* the claim set a holder of the key reads back from a token
Decoded(token) == token.payload

\* the User rows whose id a token names
Subjects(token) == {u \in users : ToString(u.id) = Decoded(token).sub}

\* C11 as stated: a token issued at time t has sub equal to str(id) and exp
\* equal to exactly t + 30 days; a token issued by user_login carries the id
\* of the User that matched the submitted email, never another User's id.
C11_TokenAsStated ==
    [][(resp'.op = "user_login" /\ resp'.status = 200) =>
        \A i \in ProjectIds, e \in Emails, p \in Passwords, t \in Clock :
            user_login(i, e, p, t) =>
                /\ Subjects(resp'.body.access_token) = UsersWithEmail(e)
                /\ Cardinality(UsersWithEmail(e)) = 1
                /\ [second |-> Decoded(resp'.body.access_token).exp, microsecond |-> 0]
                        = [t EXCEPT !.second = @ + 2592000]]_vars

\* C11, amended: a token issued at time t has sub equal to str(id) and exp
\* equal to the whole seconds of t plus 30 days (the microseconds of t are
\* dropped); a token issued by user_login carries the id of the User that
\* matched the submitted email, never another User's id.
C11_Token ==
    [][(resp'.op = "user_login" /\ resp'.status = 200) =>
        \A i \in ProjectIds, e \in Emails, p \in Passwords, t \in Clock :
            user_login(i, e, p, t) =>
                /\ Subjects(resp'.body.access_token) = UsersWithEmail(e)
                /\ Cardinality(UsersWithEmail(e)) = 1
                /\ Decoded(resp'.body.access_token).exp = t.second + 2592000]_vars

\* the second of two Users logged in at the later second
C11_Witness ==
    /\ resp.op = "user_login"
    /\ resp.status = 200
    /\ Cardinality(users) = 2
    /\ Decoded(resp.body.access_token).sub = "2"
    /\ Decoded(resp.body.access_token).exp = EPOCH_SECOND + 1 + 2592000

\* C12: update_user applies only the non-null fields: a field passed as
\* null keeps its value, the User's id and project_id never change, no other
\* User row and no Project is modified, and a non-null field has its new
\* value whenever the update is answered 200; with an id no User has it
\* returns 404 and changes nothing.
UpdateUserClaimed(u, v, login, email, password) ==
    /\ v.id = u.id
    /\ v.project_id = u.project_id
    /\ login = NULL => v.login = u.login
    /\ email = NULL => v.email = u.email
    /\ password = NULL_PASSWORD => v.password = u.password
    /\ IF resp'.status = 200
       THEN /\ login # NULL => v.login = login
            /\ email # NULL => v.email = email
            /\ password # NULL_PASSWORD => v.password = password
            /\ resp'.body = v
       ELSE v = u

C12_UpdateUser ==
    [][resp'.op = "update_user" =>
        \A i \in UserIds, l \in Opt(Logins), e \in Opt(Emails),
           p \in {RawString(pwA), NULL_PASSWORD} :
            update_user(i, l, e, p) =>
                /\ projects' = projects
                /\ IF ~ \E u \in users : u.id = i
                   THEN resp'.status = 404 /\ users' = users
                   ELSE /\ \A u \in users : u.id # i => u \in users'
                        /\ \A v \in users' : v.id # i => v \in users
                        /\ \A u \in users : u.id = i =>
                              \E v \in users' :
                                /\ UpdateUserClaimed(u, v, l, e, p)
                                /\ \A w \in users' : w.id = i => w = v]_vars

\* a registered User's login or email was updated, its hashed password
\* kept, next to a second User
C12_Witness ==
    /\ resp.op = "update_user"
    /\ resp.status = 200
    /\ resp.body \in users
    /\ resp.body.password.fmt = "bcrypt"
    /\ Cardinality(users) = 2

\* C13: list_projects(owner_id) returns 404 when the admin owns no project;
\* otherwise it returns the Projects whose owner_id is the argument, each
\* once and no other, each with user_count equal to the number of Users
\* whose project_id is its id; it changes nothing.
OwnedBy(owner_id) == {p \in projects : p.owner_id = owner_id}

ListEntryClaimed(entry, owner_id) ==
    \E p \in OwnedBy(owner_id) :
        /\ entry.id = p.id
        /\ entry.name = p.name
        /\ entry.description = p.description
        /\ entry.owner_id = p.owner_id
        /\ entry.user_count = Cardinality({u \in users : u.project_id = p.id})

C13_ListProjects ==
    [][resp'.op = "list_projects" =>
        \A o \in OwnerIds :
            list_projects(o) =>
                /\ store' = store
                /\ IF OwnedBy(o) = {}
                   THEN resp'.status = 404
                   ELSE /\ resp'.status = 200
                        /\ Len(resp'.body) = Cardinality(OwnedBy(o))
                        /\ \A p \in OwnedBy(o) :
                              \E k \in 1..Len(resp'.body) : resp'.body[k].id = p.id
                        /\ \A k \in 1..Len(resp'.body) :
                              ListEntryClaimed(resp'.body[k], o)]_vars

\* an admin's two projects were listed, one with a User and one with none
C13_Witness ==
    /\ resp.op = "list_projects"
    /\ resp.status = 200
    /\ Len(resp.body) = 2
    /\ \E k \in 1..2 : resp.body[k].user_count = 0
    /\ \E k \in 1..2 : resp.body[k].user_count > 0

\* C14: in user_login the credential check precedes the project check: a
\* request whose password does not verify against the stored password of
\* the User with the email returns 401 whether or not the requested project
\* is the User's, and 403 is returned only to a caller whose password
\* verifies.
C14_CredentialBeforeProject ==
    [][resp'.op = "user_login" =>
        \A i \in ProjectIds, e \in Emails, p \in Passwords :
            user_login(i, e, p, Instant0) =>
                /\ (\E u \in UsersWithEmail(e) : ~ verify_password(p, u.password))
                        => resp'.status = 401
                /\ resp'.status = 403
                        => \E u \in UsersWithEmail(e) :
                                verify_password(p, u.password) /\ u.project_id # i]_vars

\* C15: a Project's owner_id and id are fixed at creation: in every step a
\* Project that exists before and after has the owner_id it had, and a
\* Project appears under a new id only by create_project, with the next id
\* of the sequence.
C15_OwnerFixed ==
    [][/\ \A p \in projects, q \in projects' : q.id = p.id => q.owner_id = p.owner_id
       /\ \A q \in projects' :
            (\A p \in projects : p.id # q.id)
                => (resp'.op = "create_project" /\ q.id = nextProjectId)
       /\ Cardinality(projects') > Cardinality(projects)
            => Cardinality(projects') = Cardinality(projects) + 1]_vars

\* the project of one admin was renamed while another admin has a project
C15_Witness ==
    /\ resp.op \in {"update_project", "crud_projects_update_project"}
    /\ resp.status = 200
    /\ resp.body.name = "n2"
    /\ resp.body \in projects
    /\ \E q \in projects : q.owner_id # resp.body.owner_id

\* C16: in the in-memory project store, after every create_project,
\* update_project and delete_project call next_id is greater than every key
\* of projects_db and every record's id is its key; next_id never
\* decreases and create_project returns the id next_id had, which is
\* below next_id from then on, so no id is returned twice; update_project
\* and delete_project on an absent id return 404 and leave projects_db and
\* next_id unchanged.
C16_MemStore ==
    [][/\ \A k \in DOMAIN projects_db' : k < next_id' /\ projects_db'[k].id = k
       /\ next_id' >= next_id
       /\ resp'.op = "project_create_project" =>
            /\ resp'.status = 201
            /\ resp'.body.id = next_id
            /\ next_id' > resp'.body.id
            /\ resp'.body.id \notin DOMAIN projects_db
            /\ resp'.body.id \in DOMAIN projects_db'
       /\ resp'.op = "project_update_project" =>
            \A i \in RequestIds, n \in Names, d \in Descriptions :
                (i \notin DOMAIN projects_db /\ project_update_project(i, n, d))
                    => (resp'.status = 404 /\ projects_db' = projects_db /\ next_id' = next_id)
       /\ resp'.op = "project_delete_project" =>
            \A i \in RequestIds :
                (i \notin DOMAIN projects_db /\ project_delete_project(i))
                    => (resp'.status = 404 /\ projects_db' = projects_db /\ next_id' = next_id)]_vars

\* a project was created after an earlier one was deleted
C16_Witness ==
    /\ resp.op = "project_create_project"
    /\ resp.body.id = 3
    /\ DOMAIN projects_db = {2, 3}

====
